---- MODULE Spec2Model ----
(***************************************************************************)
(* Model of the Interview cog of EiMM-Hostbot (src/cogs/interview.py):     *)
(* the embed packer (add_question, Interview._generate_embeds) and the     *)
(* question numbering of ask / mask / iv next.                             *)
(*                                                                         *)
(* Text is kept as a sequence of runs [c, n]: the string c repeated n      *)
(* times.  A Python str of several thousand characters is a handful of     *)
(* runs, and len(), replace(), split(), strip() and join() are computed on *)
(* the runs exactly as Python computes them on the characters.             *)
(***************************************************************************)
EXTENDS Integers, Sequences, FiniteSets, TLC

\* ------------------------------------------------------------------------
\* Bounds of the model
\* ------------------------------------------------------------------------

\* longest list of answered questions handed to _generate_embeds
MaxQuestions == 3

\* most interviews started with iv next
MaxInterviews == 2

\* most rows on the interview sheet, the default question included
MaxRows == 4

\* most questions in one mask command
MaxMask == 2

\* ------------------------------------------------------------------------
\* Python str operations on run-length encoded text
\* ------------------------------------------------------------------------

Run(c, n) == [c |-> c, n |-> n]

\* a literal piece of markup
Lit(c) == <<Run(c, 1)>>

\* the length of runs lo..hi of s (the range is halved to keep the
\* evaluation shallow)
RECURSIVE SumLen(_, _, _)
SumLen(s, lo, hi) ==
    IF lo > hi THEN 0
    ELSE IF lo = hi THEN Len(s[lo].c) * s[lo].n
    ELSE LET mid == (lo + hi) \div 2
         IN  SumLen(s, lo, mid) + SumLen(s, mid + 1, hi)

\* len(s)
StrLen(s) == SumLen(s, 1, Len(s))

\* s.replace(old, new) for a one-character old
Replace(s, old, new) == [i \in 1..Len(s) |-> IF s[i].c = old THEN Run(new, s[i].n) ELSE s[i]]

\* s.replace('[', '\\[').replace(']', '\\]')
Escape(s) == Replace(Replace(s, "[", "\\["), "]", "\\]")

\* the parts of runs lo..hi of s: a run of n separators is n + 1 empty
\* parts, and the last part of one half continues in the first part of the
\* other half
RECURSIVE SplitRange(_, _, _, _)
SplitRange(s, lo, hi, sep) ==
    IF lo > hi THEN << <<>> >>
    ELSE IF lo = hi
         THEN IF s[lo].c = sep THEN [j \in 1..(s[lo].n + 1) |-> <<>>]
                               ELSE << <<s[lo]>> >>
    ELSE LET mid   == (lo + hi) \div 2
             left  == SplitRange(s, lo, mid, sep)
             right == SplitRange(s, mid + 1, hi, sep)
         IN  SubSeq(left, 1, Len(left) - 1) \o << left[Len(left)] \o right[1] >>
                 \o Tail(right)

\* s.split(sep) for a one-character sep: every single sep ends a part
Split(s, sep) == SplitRange(s, 1, Len(s), sep)

Whitespace == {" ", "\n", "\t"}

RECURSIVE LStrip(_)
LStrip(s) == IF s # <<>> /\ s[1].c \in Whitespace THEN LStrip(Tail(s)) ELSE s

RECURSIVE RStrip(_)
RStrip(s) ==
    IF s # <<>> /\ s[Len(s)].c \in Whitespace THEN RStrip(SubSeq(s, 1, Len(s) - 1)) ELSE s

\* s.strip()
Strip(s) == RStrip(LStrip(s))

RECURSIVE JoinFrom(_, _, _)
JoinFrom(parts, i, sep) ==
    IF i > Len(parts) THEN <<>>
    ELSE IF i = Len(parts) THEN parts[i]
    ELSE parts[i] \o Lit(sep) \o JoinFrom(parts, i + 1, sep)

\* sep.join(parts)
Join(parts, sep) == JoinFrom(parts, 1, sep)

RECURSIVE SumStrLen(_, _)
SumStrLen(parts, i) == IF i > Len(parts) THEN 0 ELSE StrLen(parts[i]) + SumStrLen(parts, i + 1)

\* n copies of a word of wordLen letters, each followed by one space,
\* without the last space
Words(wordLen, n) ==
    [i \in 1..(2 * n - 1) |-> IF i % 2 = 1 THEN Run("a", wordLen) ELSE Run(" ", 1)]

\* ------------------------------------------------------------------------
\* Program constants (magic numbers of add_question)
\* ------------------------------------------------------------------------

\* ceiling of a whole-record block and soft ceiling of a question chunk
MAX_BLOCK_LENGTH == 900

\* soft ceiling of an answer chunk
MAX_ANSWER_CHUNK_LENGTH == 950

\* ceiling of the accumulated length of one embed
MAX_DOC_LENGTH == 4800

\* ceiling of question + answer on the splitting path
MAX_RECORD_LENGTH == 4700

\* the buffer InterviewEmbed.blank adds for the metadata fields
METADATA_BUFFER == 100

\* return codes of add_question
TOTAL_TOO_LONG == 0 - 1
QUESTION_TOO_LONG == 0 - 2

\* ------------------------------------------------------------------------
\* InterviewEmbed
\* ------------------------------------------------------------------------

\* str(member) of the members of the guild
MemberStr(member) ==
    CASE member = "interviewee" -> "interviewee#0001"
      [] member = "A" -> "alice#0002"
      [] member = "B" -> "bartholomew#0003"
      [] OTHER -> "None"

\* member.avatar_url, a CDN link
AvatarUrl(member) ==
    Lit("https://cdn.discordapp.com/avatars/") \o <<Run("0", 18)>> \o Lit("/")
        \o <<Run("f", 32)>> \o Lit(".webp?size=1024")

\* InterviewEmbed.blank: an embed without fields; length is the header
\* overhead the method stores on the embed
blank(interviewee, asker) ==
    [ title  |-> "**" \o MemberStr(interviewee) \o "**'s interview",
      author |-> asker,
      length |-> Len("**" \o MemberStr(interviewee) \o "**'s interview" \o " "
                     \o "Asked by " \o MemberStr(asker))
                 + StrLen(AvatarUrl(asker)) + METADATA_BUFFER,
      fields |-> <<>> ]

\* add_field putting the new field first
add_field_First(em, name, value, q) ==
    [em EXCEPT !.fields = <<[name |-> name, value |-> value, q |-> q]>> \o @]

\* em.add_field(name, value); q is the Question object the field was built from
add_field(em, name, value, q) ==
    [em EXCEPT !.fields = Append(@, [name |-> name, value |-> value, q |-> q])]

\* ------------------------------------------------------------------------
\* add_question
\* ------------------------------------------------------------------------

\* question.question_words() / question.answer_words()
question_words(question) == Split(Escape(question.question), " ")
answer_words(question) == Split(Escape(question.answer), " ")

\* the lines of the escaped question, each stripped
question_lines(question) ==
    LET lines == Split(Escape(question.question), "\n")
    IN  [i \in 1..Len(lines) |-> Strip(lines[i])]

\* the test that selects the single-block path
FitsSingleBlock(question) ==
    LET lines == question_lines(question)
    IN  SumStrLen(lines, 1) + Len(lines) * 3 + StrLen(question.answer) <= MAX_BLOCK_LENGTH

\* the value of the single block: linked quoted question, newline, answer
SingleBlockValue(question) ==
    Lit("[> ") \o Join(question_lines(question), "> ") \o Lit("](")
        \o question.jump_url \o Lit(")") \o Lit("\n") \o question.answer

\* the closing link markup of a question chunk
LinkSuffix(question) == Lit("](") \o question.jump_url \o Lit(")")

\* the loop body testing the length of the word instead of the chunk
QuestionWord_TestsWord(st, word, question) ==
    LET closed == StrLen(word) > MAX_BLOCK_LENGTH
        start  == IF closed THEN Lit("[> ") ELSE st.chunk
        done   == IF closed THEN Append(st.chunks, st.chunk \o LinkSuffix(question))
                            ELSE st.chunks
    IN  [chunk |-> start \o Replace(word, "\n", "\n> ") \o Lit(" "), chunks |-> done]

\* one iteration of the loop over the question words; st holds
\* question_chunk and question_chunks
QuestionWord(st, word, question) ==
    LET closed == StrLen(st.chunk) > MAX_BLOCK_LENGTH
        start  == IF closed THEN Lit("[> ") ELSE st.chunk
        done   == IF closed THEN Append(st.chunks, st.chunk \o LinkSuffix(question))
                            ELSE st.chunks
    IN  [chunk |-> start \o Replace(word, "\n", "\n> ") \o Lit(" "), chunks |-> done]

\* the loop over words lo..hi from state st.  The range is halved, and the
\* first half is evaluated (the test on half is always true) before the
\* second half starts from it, to keep the evaluation shallow.
RECURSIVE QuestionLoop(_, _, _, _, _)
QuestionLoop(words, lo, hi, st, question) ==
    IF lo > hi THEN st
    ELSE IF lo = hi THEN QuestionWord(st, words[lo], question)
    ELSE LET mid  == (lo + hi) \div 2
             half == QuestionLoop(words, lo, mid, st, question)
         IN  IF Len(half.chunks) >= 0
             THEN QuestionLoop(words, mid + 1, hi, half, question)
             ELSE half

\* question_chunks after the loop and the closing of the last chunk
QuestionChunks(question) ==
    LET words == question_words(question)
        st    == QuestionLoop(words, 1, Len(words),
                              [chunk |-> Lit("[> "), chunks |-> <<>>], question)
    IN  Append(st.chunks, st.chunk \o LinkSuffix(question))

\* the loop body that forgets the word at which it closes a chunk
AnswerWord_DropsWord(st, word) ==
    LET closed == StrLen(st.chunk) > MAX_ANSWER_CHUNK_LENGTH
        start  == IF closed THEN <<>> ELSE st.chunk \o word \o Lit(" ")
        done   == IF closed THEN Append(st.chunks, st.chunk) ELSE st.chunks
    IN  [chunk |-> start, chunks |-> done]

\* one iteration of the loop over the answer words
AnswerWord(st, word) ==
    LET closed == StrLen(st.chunk) > MAX_ANSWER_CHUNK_LENGTH
        start  == IF closed THEN <<>> ELSE st.chunk
        done   == IF closed THEN Append(st.chunks, st.chunk) ELSE st.chunks
    IN  [chunk |-> start \o word \o Lit(" "), chunks |-> done]

\* the loop over words lo..hi from state st, halved as QuestionLoop is
RECURSIVE AnswerLoop(_, _, _, _)
AnswerLoop(words, lo, hi, st) ==
    IF lo > hi THEN st
    ELSE IF lo = hi THEN AnswerWord(st, words[lo])
    ELSE LET mid  == (lo + hi) \div 2
             half == AnswerLoop(words, lo, mid, st)
         IN  IF Len(half.chunks) >= 0
             THEN AnswerLoop(words, mid + 1, hi, half)
             ELSE half

\* answer_chunks after the loop
AnswerChunks(question) ==
    LET words == answer_words(question)
        st    == AnswerLoop(words, 1, Len(words), [chunk |-> <<>>, chunks |-> <<>>])
    IN  Append(st.chunks, st.chunk)

\* the name of chunk i (0-based) of total chunks
ChunkName(kind, question, i, total) ==
    IF total > 1
    THEN kind \o " #" \o ToString(question.question_num)
              \o " [" \o ToString(i + 1) \o "/" \o ToString(total) \o "]"
    ELSE kind \o " #" \o ToString(question.question_num)

\* em.add_field for every chunk, in index order
RECURSIVE AddChunks(_, _, _, _, _)
AddChunks(em, kind, chunks, i, question) ==
    IF i > Len(chunks) THEN em
    ELSE AddChunks(add_field(em, ChunkName(kind, question, i - 1, Len(chunks)),
                             chunks[i], question.id),
                   kind, chunks, i + 1, question)

RECURSIVE ChunksLength(_, _, _, _)
ChunksLength(kind, chunks, i, question) ==
    IF i > Len(chunks) THEN 0
    ELSE Len(ChunkName(kind, question, i - 1, Len(chunks))) + StrLen(chunks[i])
         + ChunksLength(kind, chunks, i + 1, question)

\* len(question.question) + len(question.answer)
RawLength(question) == StrLen(question.question) + StrLen(question.answer)

\* the rejection test with the question's length forgotten
RecordTooLong_AnswerOnly(question) == StrLen(question.answer) > MAX_RECORD_LENGTH

\* the test that rejects a question on the splitting path
RecordTooLong(question) == RawLength(question) > MAX_RECORD_LENGTH

\* the test against the ceiling of the document
TotalTooLong_DocCeiling(question, current_length) ==
    current_length + RawLength(question) > MAX_DOC_LENGTH

\* the test that sends a split question to the next embed
TotalTooLong(question, current_length) ==
    current_length + RawLength(question) > MAX_RECORD_LENGTH

\* add_question(em, question, current_length): the embed afterwards and the
\* returned length or error code
add_question(em, question, current_length) ==
    IF FitsSingleBlock(question)
    THEN LET name        == "Question #" \o ToString(question.question_num)
             value       == SingleBlockValue(question)
             text_length == Len(name) + StrLen(value)
         IN  IF text_length > MAX_DOC_LENGTH
             THEN [em |-> em, ret |-> QUESTION_TOO_LONG]
             ELSE IF current_length + text_length > MAX_DOC_LENGTH
             THEN [em |-> em, ret |-> TOTAL_TOO_LONG]
             ELSE [em |-> add_field(em, name, value, question.id), ret |-> text_length]
    ELSE IF RecordTooLong(question)
         THEN [em |-> em, ret |-> QUESTION_TOO_LONG]
         ELSE IF TotalTooLong(question, current_length)
         THEN [em |-> em, ret |-> TOTAL_TOO_LONG]
         ELSE LET qchunks == QuestionChunks(question)
                  achunks == AnswerChunks(question)
                  em1     == AddChunks(em, "Question", qchunks, 1, question)
                  em2     == AddChunks(em1, "Answer", achunks, 1, question)
              IN  [em |-> em2,
                   ret |-> ChunksLength("Question", qchunks, 1, question)
                           + ChunksLength("Answer", achunks, 1, question)]

\* ------------------------------------------------------------------------
\* The answered questions handed to _generate_embeds
\* ------------------------------------------------------------------------

Askers == {"A", "B"}

\* message.jump_url: https://discord.com/channels/<guild>/<channel>/<message>
JumpUrl ==
    Lit("https://discord.com/channels/") \o <<Run("0", 18)>> \o Lit("/")
        \o <<Run("1", 18)>> \o Lit("/") \o <<Run("2", 18)>>

\* "What's your favorite color?" / "Blue"
ShortText ==
    [ question |-> <<Run("a", 6), Run(" ", 1), Run("a", 4), Run(" ", 1),
                     Run("a", 8), Run(" ", 1), Run("a", 6)>>,
      answer   |-> <<Run("a", 4)>> ]

\* three lines, brackets, and a middle line of 5000 blanks: more than 4700
\* raw characters, 9 characters of question once the lines are escaped and
\* stripped; with the answer of 880 characters the single-block test is
\* 9 + 3 * 3 + 880 = 898
PaddedText ==
    [ question |-> <<Run("[", 1), Run("a", 2), Run("]", 1), Run(" ", 2), Run("\n", 1),
                     Run(" ", 5000), Run("\n", 1), Run(" ", 1), Run("a", 3)>>,
      answer   |-> <<Run("a", 880)>> ]

\* about 2500 characters: a question of 20 words on two lines with a
\* bracketed word, an answer of 8 words
SplitText ==
    [ question |-> Words(49, 10) \o <<Run("\n", 1), Run("[", 1), Run("a", 3), Run("]", 1),
                                      Run(" ", 1)>> \o Words(49, 9),
      answer   |-> Words(189, 8) ]

\* a question of 6000 characters
HugeText == [ question |-> <<Run("a", 6000)>>, answer |-> <<Run("a", 4)>> ]

\* exactly 4700 characters: 1999 of question, 2701 of answer
FullText ==
    [ question |-> Words(199, 10),
      answer   |-> Words(199, 13) \o <<Run(" ", 1), Run("a", 101)>> ]

Texts == {ShortText, PaddedText, SplitText, HugeText, FullText}

\* 4600 characters: 1999 of question, 2601 of answer
NearFullText ==
    [ question |-> Words(199, 10),
      answer   |-> Words(199, 13) \o <<Run(" ", 1), Run("a", 1)>> ]

\* the texts around the test that sends a split question to the next embed
ThresholdTexts == {ShortText, SplitText, NearFullText, FullText}

\* the question numbers _ask_many gave: the asker's own count
RECURSIVE NumOf(_, _, _)
NumOf(choice, i, j) ==
    IF j > i THEN 0
    ELSE (IF choice[j][2] = choice[i][2] THEN 1 ELSE 0) + NumOf(choice, i, j + 1)

\* the Question objects Question.from_row builds for a choice of texts and askers
QuestionsOf(choice) ==
    [ i \in 1..Len(choice) |->
        [ id           |-> i,
          asker        |-> choice[i][2],
          question     |-> choice[i][1].question,
          answer       |-> choice[i][1].answer,
          question_num |-> NumOf(choice, i, 1),
          jump_url     |-> JumpUrl ] ]

QuestionLists ==
    UNION { { QuestionsOf(choice) : choice \in [1..n -> Texts \X Askers] }
            : n \in 0..MaxQuestions }

ThresholdQuestionLists ==
    UNION { { QuestionsOf(choice) : choice \in [1..n -> ThresholdTexts \X Askers] }
            : n \in 0..MaxQuestions }

\* ------------------------------------------------------------------------
\* Interview._generate_embeds
\* ------------------------------------------------------------------------

VARIABLES
    questions,     \* the argument: the list of Question objects
    pos,           \* index of the next question of the for loop
    last_asker,    \* "None" or the asker of the previous question
    length,        \* the running length
    em,            \* <<>> for None, else <<the current embed>>
    added_length,  \* what add_question returned in the last iteration
    out,           \* what the generator has yielded so far
    pc             \* "loop" inside the for loop, "done" after the generator returned

packVars == <<questions, pos, last_asker, length, em, added_length, out, pc>>

VARIABLES
    server,        \* <<>> or <<the Server row of the guild>>
    interviews,    \* the Interview rows of the guild; the row id is the index
    askers,        \* the Asker rows: [interview_id, asker_id, num_questions]
    sheet,         \* the rows of sheet1 of the interview sheet below the header
    gone           \* the members who have left the guild

ivVars == <<server, interviews, askers, sheet, gone>>

VARIABLES
    votes,         \* the Vote rows of the guild: for each voter the candidates, in row order
    optouts,       \* the OptOut rows of the guild: the members who opted out
    sent           \* what the last answer or preview command sent, <<>> before the first

voteVars == <<votes, optouts, sent>>

VARIABLES
    servers        \* the Server table of all guilds, in the order of the commits

vars == <<packVars, ivVars, voteVars, servers>>

YieldEmbed(embed) == [type |-> "Embed", embed |-> embed]
YieldQuestion(question) == [type |-> "Question", question |-> question]

PackInit ==
    /\ questions \in QuestionLists
    /\ pos = 1
    /\ last_asker = "None"
    /\ length = 0
    /\ em = <<>>
    /\ added_length = 0
    /\ out = <<>>
    /\ pc = "loop"

\* the asker test that only sees the first question
AskerChanged_FirstOnly(last, question) == last = "None"

\* last_asker != question.asker
AskerChanged(last, question) == last # question.asker

\* the yields without their test
HasFields_Always(embed) == TRUE

\* len(em.fields) > 0, the test before each yield of an embed
HasFields(embed) == Len(embed.fields) > 0

\* a loop that starts a blank embed after either error code
EmbedAfter_AnyError(added, question) ==
    IF added.ret < 0
    THEN blank("interviewee", question.asker) ELSE added.em

\* the embed the loop goes on with after add_question returned added: a
\* blank one after TOTAL_TOO_LONG, else the one add_question worked on
EmbedAfter(added, question) ==
    IF added.ret = TOTAL_TOO_LONG
    THEN blank("interviewee", question.asker) ELSE added.em

\* a for loop that takes "yield and retry" literally: after TOTAL_TOO_LONG
\* the same question is tried again with the same running length
Iterate_Retry ==
    /\ pc = "loop"
    /\ pos <= Len(questions)
    /\ questions[pos].asker # "None"
    /\ LET question == questions[pos]
           changed  == AskerChanged(last_asker, question)
           out1     == IF changed /\ em # <<>> /\ HasFields(em[1])
                       THEN Append(out, YieldEmbed(em[1])) ELSE out
           em1      == IF changed THEN blank("interviewee", question.asker) ELSE em[1]
           length1  == IF changed THEN 0 ELSE length
           added    == add_question(em1, question, length1)
           out2     == IF added.ret = TOTAL_TOO_LONG /\ HasFields(added.em)
                       THEN Append(out1, YieldEmbed(added.em)) ELSE out1
           out3     == IF added.ret = QUESTION_TOO_LONG
                       THEN Append(out2, YieldQuestion(question)) ELSE out2
       IN  /\ out' = out3
           /\ em' = <<EmbedAfter(added, question)>>
           /\ added_length' = added.ret
           /\ length' = IF added.ret = TOTAL_TOO_LONG THEN length1 ELSE length1 + added.ret
           /\ last_asker' = question.asker
           /\ pos' = IF added.ret = TOTAL_TOO_LONG THEN pos ELSE pos + 1
    /\ UNCHANGED <<questions, pc>>

\* one iteration of the for loop for a question whose asker is a member
\* (guild.get_member found them)
Iterate ==
    /\ pc = "loop"
    /\ pos <= Len(questions)
    /\ questions[pos].asker # "None"
    /\ LET question == questions[pos]
           changed  == AskerChanged(last_asker, question)
           out1     == IF changed /\ em # <<>> /\ HasFields(em[1])
                       THEN Append(out, YieldEmbed(em[1])) ELSE out
           em1      == IF changed THEN blank("interviewee", question.asker) ELSE em[1]
           length1  == IF changed THEN 0 ELSE length
           added    == add_question(em1, question, length1)
           out2     == IF added.ret = TOTAL_TOO_LONG /\ HasFields(added.em)
                       THEN Append(out1, YieldEmbed(added.em)) ELSE out1
           out3     == IF added.ret = QUESTION_TOO_LONG
                       THEN Append(out2, YieldQuestion(question)) ELSE out2
       IN  /\ out' = out3
           /\ em' = <<EmbedAfter(added, question)>>
           /\ added_length' = added.ret
           /\ length' = length1 + added.ret
           /\ last_asker' = question.asker
    /\ pos' = pos + 1
    /\ UNCHANGED <<questions, pc>>

\* the end of the for loop: the last embed is yielded and the generator returns
Finish ==
    /\ pc = "loop"
    /\ pos > Len(questions)
    /\ out' = IF em # <<>> /\ HasFields(em[1])
              THEN Append(out, YieldEmbed(em[1])) ELSE out
    /\ pc' = "done"
    /\ UNCHANGED <<questions, pos, last_asker, length, em, added_length>>

\* one iteration for a question whose asker is None (get_member did not
\* find them) while last_asker is None and em is None: add_question returns
\* QUESTION_TOO_LONG before it touches em, and the question is yielded
IterateNoAsker ==
    /\ pc = "loop"
    /\ pos <= Len(questions)
    /\ questions[pos].asker = "None"
    /\ last_asker = "None"
    /\ em = <<>>
    /\ ~FitsSingleBlock(questions[pos])
    /\ RecordTooLong(questions[pos])
    /\ out' = Append(out, YieldQuestion(questions[pos]))
    /\ added_length' = QUESTION_TOO_LONG
    /\ length' = length + QUESTION_TOO_LONG
    /\ pos' = pos + 1
    /\ UNCHANGED <<questions, last_asker, em, pc>>

\* an iteration that raises AttributeError on None: InterviewEmbed.blank
\* reads asker.avatar_url of a None asker after the asker changed (the old
\* embed has been yielded by then), or add_question calls em.add_field on
\* the None em of a first question whose asker is None
Raise ==
    /\ pc = "loop"
    /\ pos <= Len(questions)
    /\ questions[pos].asker = "None"
    /\ \/ /\ AskerChanged(last_asker, questions[pos])
          /\ out' = IF em # <<>> /\ HasFields(em[1])
                    THEN Append(out, YieldEmbed(em[1])) ELSE out
       \/ /\ ~AskerChanged(last_asker, questions[pos])
          /\ FitsSingleBlock(questions[pos]) \/ ~RecordTooLong(questions[pos])
          /\ out' = out
    /\ pc' = "raised"
    /\ UNCHANGED <<questions, pos, last_asker, length, em, added_length>>

\* the generator is not running
PackIdle ==
    /\ questions = <<>>
    /\ pos = 1
    /\ last_asker = "None"
    /\ length = 0
    /\ em = <<>>
    /\ added_length = 0
    /\ out = <<>>
    /\ pc = "idle"

\* ------------------------------------------------------------------------
\* The commands iv setup / enable / disable / next, ask and mask
\* ------------------------------------------------------------------------

\* the members of the guild who send commands
Members == {"A", "B", "interviewee"}

\* the bot's own user, the asker of the default question
BotUser == "bot"

\* no Vote rows
NoVotes == [voter \in Members |-> <<>>]

IvInit ==
    /\ server = <<>>
    /\ interviews = <<>>
    /\ askers = {}
    /\ sheet = <<>>
    /\ gone = {}
    /\ votes = NoVotes
    /\ optouts = {}
    /\ sent = <<>>
    /\ servers = <<>>

\* the check _server_active
ServerActive == server # <<>>

\* a check that looks for the Server row only
InterviewEnabled_AnyServer == server # <<>>

\* the check _interview_enabled
InterviewEnabled == server # <<>> /\ server[1].active

\* iv setup on a guild that has no Server row
iv_setup ==
    /\ server = <<>>
    /\ server' = <<[active |-> FALSE]>>
    /\ UNCHANGED <<interviews, askers, sheet, gone>>

\* iv enable
iv_enable ==
    /\ ServerActive
    /\ ~server[1].active
    /\ server' = <<[server[1] EXCEPT !.active = TRUE]>>
    /\ UNCHANGED <<interviews, askers, sheet, gone>>

\* iv disable
iv_disable ==
    /\ ServerActive
    /\ server[1].active
    /\ server' = <<[server[1] EXCEPT !.active = FALSE]>>
    /\ UNCHANGED <<interviews, askers, sheet, gone>>

\* a row of the sheet as Question.to_row and iv next write it
SheetRow(asker, num) == [asker |-> asker, num |-> num, answer |-> "", posted |-> FALSE]

\* iv next <interviewee>: the old interview is no longer current, the new
\* sheet becomes sheet1 and holds the default question as number 1.  The
\* votes of the guild are deleted in a transaction the handler never commits:
\* the rows are gone or still there, as the session's end decides.
iv_next(interviewee) ==
    /\ ServerActive
    /\ interviewee \notin gone
    /\ Len(interviews) < MaxInterviews
    /\ interviews' =
           Append([i \in 1..Len(interviews) |-> [interviews[i] EXCEPT !.current = FALSE]],
                  [interviewee_id |-> interviewee, questions_asked |-> 0,
                   questions_answered |-> 0, current |-> TRUE])
    /\ sheet' = <<SheetRow(BotUser, 1)>>
    /\ votes' \in {votes, NoVotes}
    /\ UNCHANGED <<server, askers, gone>>

\* the id of the current interview, 0 when there is none
CurrentInterview ==
    IF \E i \in 1..Len(interviews) : interviews[i].current
    THEN CHOOSE i \in 1..Len(interviews) : interviews[i].current
    ELSE 0

\* a lookup that never finds the Asker row
NumQuestions_NeverFound(iv, author) == 0

\* num_questions of the Asker row of author in interview iv, 0 for the row
\* _ask_many creates when there is none
NumQuestions(iv, author) ==
    IF \E a \in askers : a.interview_id = iv /\ a.asker_id = author
    THEN (CHOOSE a \in askers : a.interview_id = iv /\ a.asker_id = author).num_questions
    ELSE 0

\* _ask_many(ctx, question_strs) for n question strings: one Question per
\* string, numbered from the asker's count, uploaded to the sheet in order;
\* nothing happens without a current interview or when the interviewee has
\* left the guild
_ask_many(author, n) ==
    LET iv   == CurrentInterview
        base == NumQuestions(iv, author)
    IN  /\ iv # 0
        /\ interviews[iv].interviewee_id \notin gone
        /\ sheet' = sheet \o [k \in 1..n |-> SheetRow(author, base + k)]
        /\ askers' = {a \in askers : ~(a.interview_id = iv /\ a.asker_id = author)}
                     \cup {[interview_id |-> iv, asker_id |-> author,
                            num_questions |-> base + n]}
        /\ interviews' = [interviews EXCEPT ![iv].questions_asked = @ + n]
        /\ UNCHANGED <<server, gone>>

\* ask <question>
ask(author) ==
    /\ author \notin gone
    /\ ServerActive
    /\ InterviewEnabled
    /\ Len(sheet) + 1 <= MaxRows
    /\ _ask_many(author, 1)

\* mask <questions>: one question per line
mask(author, n) ==
    /\ author \notin gone
    /\ ServerActive
    /\ InterviewEnabled
    /\ Len(sheet) + n <= MaxRows
    /\ _ask_many(author, n)

\* a member leaves the guild
member_remove(member) ==
    /\ member \notin gone
    /\ gone' = gone \cup {member}
    /\ UNCHANGED <<server, interviews, askers, sheet>>

\* ------------------------------------------------------------------------
\* The commands vote, unvote, opt out and opt in
\* ------------------------------------------------------------------------

\* the longest list of mentions a vote command is tried with
MaxMentions == 4

\* the members who send vote, unvote and opt commands
Voters == {"A", "B"}

\* whom a vote command mentions: members and the bot
MentionCandidates == {"A", "B", BotUser}

\* the values of the Greedy[discord.Member] argument
MentionLists == UNION { [1..n -> MentionCandidates] : n \in 0..MaxMentions }

\* mention.bot
IsBot(member) == member = BotUser

\* list.remove(x): the list without the first item equal to x
RemoveFirst(list, x) ==
    LET first == CHOOSE i \in 1..Len(list) :
                     list[i] = x /\ \A j \in 1..(i - 1) : list[j] # x
    IN  SubSeq(list, 1, first - 1) \o SubSeq(list, first + 1, Len(list))

\* for mention in errors: mentions.remove(mention), from errors[k] on
RECURSIVE RemoveEach(_, _, _)
RemoveEach(mentions, errors, k) ==
    IF k > Len(errors) THEN mentions
    ELSE RemoveEach(RemoveFirst(mentions, errors[k]), errors, k + 1)

\* rule 2: mentions[:3]
FirstThree(mentions) == IF Len(mentions) > 3 THEN SubSeq(mentions, 1, 3) ELSE mentions

\* rule 3: the member has an OptOut row
OptedOut(member) == member \in optouts

\* rule 4: the newest Interview row of the member started after server.limit;
\* iv setup sets limit to the epoch and nothing changes it, so every
\* interview of the member counts
TooRecent(member) ==
    \E i \in 1..Len(interviews) : interviews[i].interviewee_id = member

\* rule 7: if ctx.author in mentions: mentions.remove(ctx.author)
WithoutSelf(mentions, author) ==
    IF \E i \in 1..Len(mentions) : mentions[i] = author
    THEN RemoveFirst(mentions, author) ELSE mentions

\* the mentions left after rules 2, 3, 4, 6 and 7, in the order of the code
LegalMentions(author, mentions) ==
    LET m2 == FirstThree(mentions)
        m3 == RemoveEach(m2, SelectSeq(m2, OptedOut), 1)
        m4 == RemoveEach(m3, SelectSeq(m3, TooRecent), 1)
        m6 == RemoveEach(m4, SelectSeq(m4, IsBot), 1)
    IN  WithoutSelf(m6, author)

\* a vote that adds the new rows to the old ones
VotesAfter_KeepsOld(old_votes, mentions) == old_votes \o mentions

\* the rows of the voter after the old rows are deleted and one row per
\* mention is added
VotesAfter(old_votes, mentions) == mentions

\* two of the rows to add are for the same candidate
RepeatedRows(candidates) ==
    \E i \in 1..Len(candidates), j \in 1..Len(candidates) :
        i < j /\ candidates[i] = candidates[j]

\* vote <mentions>.  joined_late is rule 5, ctx.author.joined_at >
\* iv_meta.start_time.  The handler returns without touching the rows when
\* nobody is mentioned or the author joined late, and raises AttributeError
\* on iv_meta.start_time when the guild has no current interview.  Whether
\* two rows of one voter for one candidate can be committed is decided by
\* the keys of the Vote table: either the commit goes through or it raises
\* and nothing is changed.
vote(author, mentions, joined_late) ==
    /\ author \notin gone
    /\ ServerActive
    /\ InterviewEnabled
    /\ IF Len(mentions) < 1 \/ CurrentInterview = 0 \/ joined_late
       THEN UNCHANGED votes
       ELSE LET rows == VotesAfter(votes[author], LegalMentions(author, mentions))
            IN  IF RepeatedRows(rows)
                THEN votes' \in {votes, [votes EXCEPT ![author] = rows]}
                ELSE votes' = [votes EXCEPT ![author] = rows]
    /\ UNCHANGED <<server, interviews, askers, sheet, gone, optouts, sent>>

\* unvote
unvote(author) ==
    /\ author \notin gone
    /\ ServerActive
    /\ InterviewEnabled
    /\ votes' = [votes EXCEPT ![author] = <<>>]
    /\ UNCHANGED <<server, interviews, askers, sheet, gone, optouts, sent>>

\* an opt out that leaves the votes alone
VotesNotFor_Keeps(rows, member) == rows

\* the Vote rows whose candidate is not the member
VotesNotFor(rows, member) ==
    [voter \in DOMAIN rows |-> SelectSeq(rows[voter], LAMBDA candidate : candidate # member)]

\* opt out
opt_out(author) ==
    /\ author \notin gone
    /\ ServerActive
    /\ InterviewEnabled
    /\ IF author \notin optouts
       THEN /\ optouts' = optouts \cup {author}
            /\ votes' = VotesNotFor(votes, author)
       ELSE UNCHANGED <<optouts, votes>>
    /\ UNCHANGED <<server, interviews, askers, sheet, gone, sent>>

\* opt in
opt_in(author) ==
    /\ author \notin gone
    /\ ServerActive
    /\ InterviewEnabled
    /\ optouts' = optouts \ {author}
    /\ UNCHANGED <<server, interviews, askers, sheet, gone, votes, sent>>

\* ------------------------------------------------------------------------
\* The commands answer and preview
\* ------------------------------------------------------------------------

\* the channels commands are sent in
Channels == {"answers", "backstage"}

\* server.answer_channel, as iv setup stored it
AnswerChannel == "answers"

\* the interviewee fills in the Answer cell of row i of the sheet
sheet_answer(i) ==
    /\ i \in 1..Len(sheet)
    /\ sheet[i].answer = ""
    /\ sheet' = [sheet EXCEPT ![i].answer = "answered"]
    /\ UNCHANGED <<server, interviews, askers, gone, votes, optouts, sent>>

\* filtered_rows: the rows with an answer and Posted? FALSE, in sheet order
FilteredRows ==
    SelectSeq([i \in 1..Len(sheet) |-> i],
              LAMBDA i : sheet[i].answer # "" /\ ~sheet[i].posted)

\* the check _is_interviewee
IsInterviewee(author) ==
    CurrentInterview # 0 /\ interviews[CurrentInterview].interviewee_id = author

\* a preview flag that is never set
PreviewFlag_Never(channel, invoked_in) == FALSE

\* preview_flag: the target channel is the channel of the command
PreviewFlag(channel, invoked_in) == channel = invoked_in

\* _channel_answer(ctx, channel) for a command sent in invoked_in: the rows
\* of filtered_rows become Questions, what _generate_embeds yields for them
\* goes to channel; unless previewing, the Posted? cells of the rows are set
\* and questions_answered grows.  Without rows the reply goes to ctx.
_channel_answer(author, channel, invoked_in) ==
    /\ author \notin gone
    /\ ServerActive
    /\ IsInterviewee(author)
    /\ \A k \in 1..Len(FilteredRows) : sheet[FilteredRows[k]].asker \notin gone
    /\ IF FilteredRows = <<>>
       THEN /\ sent' = <<[channel |-> invoked_in, rows |-> <<>>,
                           text |-> "No new questions to be answered."]>>
            /\ UNCHANGED <<sheet, interviews>>
       ELSE /\ sent' = <<[channel |-> channel, rows |-> FilteredRows, text |-> ""]>>
            /\ IF PreviewFlag(channel, invoked_in)
               THEN UNCHANGED <<sheet, interviews>>
               ELSE /\ sheet' = [i \in 1..Len(sheet) |->
                                   IF \E k \in 1..Len(FilteredRows) : FilteredRows[k] = i
                                   THEN [sheet[i] EXCEPT !.posted = TRUE] ELSE sheet[i]]
                    /\ interviews' = [interviews EXCEPT
                                         ![CurrentInterview].questions_answered =
                                             @ + Len(FilteredRows)]
    /\ UNCHANGED <<server, askers, gone, votes, optouts>>

\* answer, sent in the channel invoked_in
answer(author, invoked_in) == _channel_answer(author, AnswerChannel, invoked_in)

\* preview, sent in the channel invoked_in
preview(author, invoked_in) == _channel_answer(author, invoked_in, invoked_in)

\* one interview round: the setup, the first iv next, questions of one
\* member, answers written into the sheet, answer and preview commands
AnswerNext ==
    \/ iv_setup /\ UNCHANGED <<packVars, voteVars, servers>>
    \/ iv_enable /\ UNCHANGED <<packVars, voteVars, servers>>
    \/ interviews = <<>> /\ iv_next("interviewee") /\ UNCHANGED <<packVars, optouts, sent, servers>>
    \/ ask("A") /\ UNCHANGED <<packVars, voteVars, servers>>
    \/ \E i \in 1..MaxRows : sheet_answer(i) /\ UNCHANGED <<packVars, servers>>
    \/ \E invoked_in \in Channels : answer("interviewee", invoked_in) /\ UNCHANGED <<packVars, servers>>
    \/ \E invoked_in \in Channels : preview("interviewee", invoked_in) /\ UNCHANGED <<packVars, servers>>

\* the members iv next is given in the voting model
Interviewees == {"interviewee", "B"}

VoteNext ==
    \/ iv_setup /\ UNCHANGED <<packVars, voteVars, servers>>
    \/ iv_enable /\ UNCHANGED <<packVars, voteVars, servers>>
    \/ iv_disable /\ UNCHANGED <<packVars, voteVars, servers>>
    \/ \E interviewee \in Interviewees :
           iv_next(interviewee) /\ UNCHANGED <<packVars, optouts, sent, servers>>
    \/ \E author \in Voters, mentions \in MentionLists, joined_late \in BOOLEAN :
           vote(author, mentions, joined_late) /\ UNCHANGED <<packVars, servers>>
    \/ \E author \in Voters : unvote(author) /\ UNCHANGED <<packVars, servers>>
    \/ \E author \in Voters : opt_out(author) /\ UNCHANGED <<packVars, servers>>
    \/ \E author \in Voters : opt_in(author) /\ UNCHANGED <<packVars, servers>>

Init == PackInit /\ IvInit

Next ==
    \/ Iterate /\ UNCHANGED <<ivVars, voteVars, servers>>
    \/ Finish /\ UNCHANGED <<ivVars, voteVars, servers>>

Spec == Init /\ [][Next]_vars

\* the question numbers of the rows of an edited sheet
BadNums == {0 - 1, 1}

\* the Question objects Question.from_row builds from rows of a sheet whose
\* ID and # columns hold anything: askers who left the guild, negative and
\* repeated numbers
BadQuestionsOf(choice) ==
    [ i \in 1..Len(choice) |->
        [ id           |-> i,
          asker        |-> choice[i][2],
          question     |-> choice[i][1].question,
          answer       |-> choice[i][1].answer,
          question_num |-> choice[i][3],
          jump_url     |-> JumpUrl ] ]

BadQuestionLists ==
    UNION { { BadQuestionsOf(choice)
                : choice \in [1..n -> {ShortText, HugeText} \X {"A", "None"} \X BadNums] }
            : n \in 0..MaxQuestions }

BadPackInit ==
    /\ questions \in BadQuestionLists
    /\ pos = 1
    /\ last_asker = "None"
    /\ length = 0
    /\ em = <<>>
    /\ added_length = 0
    /\ out = <<>>
    /\ pc = "loop"

BadInit == BadPackInit /\ IvInit

BadNext ==
    \/ Iterate /\ UNCHANGED <<ivVars, voteVars, servers>>
    \/ IterateNoAsker /\ UNCHANGED <<ivVars, voteVars, servers>>
    \/ Raise /\ UNCHANGED <<ivVars, voteVars, servers>>
    \/ Finish /\ UNCHANGED <<ivVars, voteVars, servers>>

BadSpec == BadInit /\ [][BadNext]_vars

AskInit == PackIdle /\ IvInit

AskNext ==
    \/ iv_setup /\ UNCHANGED <<packVars, voteVars, servers>>
    \/ iv_enable /\ UNCHANGED <<packVars, voteVars, servers>>
    \/ iv_disable /\ UNCHANGED <<packVars, voteVars, servers>>
    \/ \E interviewee \in Members :
           iv_next(interviewee) /\ UNCHANGED <<packVars, optouts, sent, servers>>
    \/ \E author \in Members : ask(author) /\ UNCHANGED <<packVars, voteVars, servers>>
    \/ \E author \in Members, n \in 1..MaxMask :
           mask(author, n) /\ UNCHANGED <<packVars, voteVars, servers>>
    \/ \E member \in Members : member_remove(member) /\ UNCHANGED <<packVars, voteVars, servers>>

AskSpec == AskInit /\ [][AskNext]_vars

VoteSpec == AskInit /\ [][VoteNext]_vars

AnswerSpec == AskInit /\ [][AnswerNext]_vars

\* every command that asks, votes or opts, and the commands that switch
\* interviews on and off; votes mention at most two members here
DisableNext ==
    \/ iv_setup /\ UNCHANGED <<packVars, voteVars, servers>>
    \/ iv_enable /\ UNCHANGED <<packVars, voteVars, servers>>
    \/ iv_disable /\ UNCHANGED <<packVars, voteVars, servers>>
    \/ \E interviewee \in Interviewees :
           iv_next(interviewee) /\ UNCHANGED <<packVars, optouts, sent, servers>>
    \/ \E author \in Voters, mentions \in {m \in MentionLists : Len(m) <= 2} :
           vote(author, mentions, FALSE) /\ UNCHANGED <<packVars, servers>>
    \/ \E author \in Voters : unvote(author) /\ UNCHANGED <<packVars, servers>>
    \/ \E author \in Voters : opt_out(author) /\ UNCHANGED <<packVars, servers>>
    \/ \E author \in Voters : opt_in(author) /\ UNCHANGED <<packVars, servers>>
    \/ ask("A") /\ UNCHANGED <<packVars, voteVars, servers>>
    \/ \E n \in 1..MaxMask : mask("A", n) /\ UNCHANGED <<packVars, voteVars, servers>>

DisableSpec == AskInit /\ [][DisableNext]_vars

\* ------------------------------------------------------------------------
\* iv setup, iv enable and iv disable over the Server table of all guilds
\* ------------------------------------------------------------------------

MaxGuilds == 3
MaxSheets == 3

\* ctx.guild.id of the guilds the bot is in
Guilds == 1..MaxGuilds

\* the sheet names given to iv setup
SheetNames == 1..MaxSheets

\* session.query(schema.Server).filter_by(id=guild).one_or_none() is not None
GuildSetUp(guild) == \E i \in 1..Len(servers) : servers[i].id = guild

\* a check that finds no sheet name registered
SheetTaken_Never(sheet_name) == FALSE

\* session.query(schema.Server).filter_by(sheet_name=sheet_name).one_or_none()
\* is not None
SheetTaken(sheet_name) == \E i \in 1..Len(servers) : servers[i].sheet_name = sheet_name

\* iv setup sent in guild with sheet_name; found is whether get_sheet finds
\* the spreadsheet.  The three refusals return before session.add.
iv_setup_in(guild, sheet_name, found) ==
    /\ IF GuildSetUp(guild) \/ SheetTaken(sheet_name) \/ ~found
       THEN UNCHANGED servers
       ELSE servers' = Append(servers, [id |-> guild, sheet_name |-> sheet_name,
                                        active |-> FALSE])
    /\ UNCHANGED <<ivVars, voteVars>>

\* the Server table with the active flag of guild set to flag
WithActive(guild, flag) ==
    [i \in 1..Len(servers) |->
        IF servers[i].id = guild THEN [servers[i] EXCEPT !.active = flag] ELSE servers[i]]

\* iv enable sent in guild
iv_enable_in(guild) ==
    /\ GuildSetUp(guild)
    /\ \E i \in 1..Len(servers) : servers[i].id = guild /\ ~servers[i].active
    /\ servers' = WithActive(guild, TRUE)
    /\ UNCHANGED <<ivVars, voteVars>>

\* iv disable sent in guild
iv_disable_in(guild) ==
    /\ GuildSetUp(guild)
    /\ \E i \in 1..Len(servers) : servers[i].id = guild /\ servers[i].active
    /\ servers' = WithActive(guild, FALSE)
    /\ UNCHANGED <<ivVars, voteVars>>

SetupNext ==
    \/ \E guild \in Guilds, sheet_name \in SheetNames, found \in BOOLEAN :
           iv_setup_in(guild, sheet_name, found) /\ UNCHANGED packVars
    \/ \E guild \in Guilds : iv_enable_in(guild) /\ UNCHANGED packVars
    \/ \E guild \in Guilds : iv_disable_in(guild) /\ UNCHANGED packVars

SetupSpec == AskInit /\ [][SetupNext]_vars

\* ------------------------------------------------------------------------
\* _generate_embeds on questions around the tests of the splitting path
\* ------------------------------------------------------------------------

ThresholdPackInit ==
    /\ questions \in ThresholdQuestionLists
    /\ pos = 1
    /\ last_asker = "None"
    /\ length = 0
    /\ em = <<>>
    /\ added_length = 0
    /\ out = <<>>
    /\ pc = "loop"

ThresholdInit == ThresholdPackInit /\ IvInit

ThresholdSpec == ThresholdInit /\ [][Next]_vars

\* the question goes down the splitting path and past its rejection test
SplitRecord(question) == ~FitsSingleBlock(question) /\ ~RecordTooLong(question)

\* the current_length the next iteration hands to add_question
LengthBefore ==
    IF AskerChanged(last_asker, questions[pos]) THEN 0 ELSE length

\* the number of fields of the embed the next iteration hands to add_question
FieldsBefore ==
    IF AskerChanged(last_asker, questions[pos]) THEN 0 ELSE Len(em[1].fields)

\* ------------------------------------------------------------------------
\* What _generate_embeds has yielded
\* ------------------------------------------------------------------------

\* the positions of the Documents (embeds) in the output
DocIndices == {k \in 1..Len(out) : out[k].type = "Embed"}

\* the records (by position in the input) that have a block in an embed
RecordsOf(embed) == {embed.fields[f].q : f \in 1..Len(embed.fields)}

\* the Documents that hold a block of record i
DocsOf(i) == {k \in DocIndices : i \in RecordsOf(out[k].embed)}

\* the places where record i was yielded as a rejected record
RejectionsOf(i) ==
    {k \in 1..Len(out) : out[k].type = "Question" /\ out[k].question = questions[i]}

\* record i has a block in an emitted Document
Placed(i) == DocsOf(i) # {}

RECURSIVE FieldsLengthFrom(_, _)
FieldsLengthFrom(fields, f) ==
    IF f > Len(fields) THEN 0
    ELSE Len(fields[f].name) + StrLen(fields[f].value) + FieldsLengthFrom(fields, f + 1)

\* the sum over the blocks of name length + body length
FieldsLength(embed) == FieldsLengthFrom(embed.fields, 1)

\* ------------------------------------------------------------------------
\* C1  Completeness
\* ------------------------------------------------------------------------

\* C1: when the generator has returned, every input record is in the output
\* exactly once: in the blocks of exactly one Document, or yielded once as a
\* rejected record, never both and never neither.
Completeness ==
    pc = "done" =>
        \A i \in 1..Len(questions) :
            Cardinality(DocsOf(i)) + Cardinality(RejectionsOf(i)) = 1

\* ------------------------------------------------------------------------
\* C2  Document ceiling
\* ------------------------------------------------------------------------

\* C2: for every emitted Document the sum of its blocks' name and body
\* lengths plus the header overhead InterviewEmbed.blank computed is at most
\* MAX_DOC_LENGTH.
DocumentCeiling ==
    \A k \in DocIndices :
        FieldsLength(out[k].embed) + out[k].embed.length <= MAX_DOC_LENGTH

\* ------------------------------------------------------------------------
\* C3  Overflow retry
\* ------------------------------------------------------------------------

\* C3: after an iteration in which add_question answered TOTAL_TOO_LONG for
\* a record that is within the per-record ceiling, the current document is
\* a fresh one of the same asker whose first block is that record.
OverflowRetry ==
    (pc = "loop" /\ pos > 1 /\ added_length = TOTAL_TOO_LONG
        /\ RawLength(questions[pos - 1]) <= MAX_RECORD_LENGTH)
    => /\ em[1].author = questions[pos - 1].asker
       /\ HasFields(em[1])
       /\ em[1].fields[1].q = questions[pos - 1].id

\* ------------------------------------------------------------------------
\* C4  Rejection
\* ------------------------------------------------------------------------

\* record i has no block, neither in an emitted Document nor in the current one
NoBlockOf(i) == DocsOf(i) = {} /\ (em # <<>> => i \notin RecordsOf(em[1]))

RunStarts ==
    {i \in 1..Len(questions) : i = 1 \/ questions[i].asker # questions[i - 1].asker}

\* the first record of the k-th run
StartOfRun(k) == CHOOSE s \in RunStarts : Cardinality({t \in RunStarts : t <= s}) = k

\* the records of the run that starts at s
RunOf(s) ==
    {j \in s..Len(questions) : \A m \in s..j : questions[m].asker = questions[s].asker}

\* what add_question counts for a record on the single-block path
SingleLength(question) ==
    Len("Question #" \o ToString(question.question_num))
        + StrLen(SingleBlockValue(question))

RECURSIVE SumSingleLength(_)
SumSingleLength(records) ==
    IF records = {} THEN 0
    ELSE LET i == CHOOSE i \in records : TRUE
         IN  SingleLength(questions[i]) + SumSingleLength(records \ {i})

\* every record fits as a single block and no run overflows
OnlyFittingSingles ==
    /\ \A i \in 1..Len(questions) : FitsSingleBlock(questions[i])
    /\ \A s \in RunStarts : SumSingleLength(RunOf(s)) <= MAX_DOC_LENGTH

\* C5: when the generator has returned, consecutive records of different
\* askers share no Document; consecutive records of the same asker that both
\* have blocks are in the same Document; records of one asker separated by a
\* record of another asker share no Document; and when every record fits as a
\* single block and no run overflows, the output is one Document per maximal
\* run of equal askers, with one block per record of the run, in order.
Grouping ==
    pc = "done" =>
        /\ \A i \in 1..(Len(questions) - 1) :
               questions[i].asker # questions[i + 1].asker
               => DocsOf(i) \cap DocsOf(i + 1) = {}
        /\ \A i \in 1..(Len(questions) - 1) :
               (questions[i].asker = questions[i + 1].asker /\ Placed(i) /\ Placed(i + 1))
               => DocsOf(i) = DocsOf(i + 1)
        /\ \A i \in 1..Len(questions), j \in 1..Len(questions) :
               (i < j /\ \E m \in i..j : questions[m].asker # questions[i].asker)
               => DocsOf(i) \cap DocsOf(j) = {}
        /\ OnlyFittingSingles
           => /\ Len(out) = Cardinality(RunStarts)
              /\ \A k \in 1..Len(out) :
                     /\ out[k].type = "Embed"
                     /\ out[k].embed.author = questions[StartOfRun(k)].asker
                     /\ Len(out[k].embed.fields) = Cardinality(RunOf(StartOfRun(k)))
                     /\ \A f \in 1..Len(out[k].embed.fields) :
                            out[k].embed.fields[f].q = StartOfRun(k) + f - 1

\* two short records of one asker and one of another were packed into two
\* Documents of two blocks and one block
GroupingWitness ==
    /\ pc = "done"
    /\ Len(questions) = 3
    /\ OnlyFittingSingles
    /\ questions[1].asker = questions[2].asker
    /\ questions[2].asker # questions[3].asker
    /\ Len(out) = 2
    /\ Len(out[1].embed.fields) = 2
    /\ Len(out[2].embed.fields) = 1

\* ------------------------------------------------------------------------
\* C6  Block ceiling
\* ------------------------------------------------------------------------

\* the length of the longest of some strings
Longest(parts) ==
    LET lens == {StrLen(parts[i]) : i \in 1..Len(parts)}
    IN  CHOOSE m \in lens : \A x \in lens : x <= m

\* the question words as the loop adds them, newlines quoted
QuotedWords(question) ==
    LET words == question_words(question)
    IN  [i \in 1..Len(words) |-> Replace(words[i], "\n", "\n> ")]

\* field is the block of a record added on the single-block path
IsSingleBlock(field) == FitsSingleBlock(questions[field.q])

\* field is a chunk of the given kind of a split record, in an embed of n fields
IsChunk(field, kind, n) ==
    /\ ~FitsSingleBlock(questions[field.q])
    /\ \E total \in 1..n, i \in 0..(n - 1) :
           field.name = ChunkName(kind, questions[field.q], i, total)

\* C6 as stated: every single-block body is at most MAX_BLOCK_LENGTH long,
\* every question chunk at most MAX_BLOCK_LENGTH plus one word, every answer
\* chunk at most MAX_ANSWER_CHUNK_LENGTH plus one word.
BlockCeilingAsStated ==
    em # <<>> =>
        \A f \in 1..Len(em[1].fields) :
            LET field == em[1].fields[f]
                n     == Len(em[1].fields)
            IN  /\ IsSingleBlock(field) => StrLen(field.value) <= MAX_BLOCK_LENGTH
                /\ IsChunk(field, "Question", n)
                   => StrLen(field.value)
                          <= MAX_BLOCK_LENGTH + Longest(QuotedWords(questions[field.q]))
                /\ IsChunk(field, "Answer", n)
                   => StrLen(field.value)
                          <= MAX_ANSWER_CHUNK_LENGTH
                             + Longest(answer_words(questions[field.q]))

\* C6 amended: every single-block body is at most MAX_BLOCK_LENGTH + 4 plus
\* the length of the link; every question chunk is at most MAX_BLOCK_LENGTH
\* plus one (escaped, quoted) word and its space plus the closing markup
\* "](link)"; every answer chunk is at most MAX_ANSWER_CHUNK_LENGTH plus one
\* word and its space.
BlockCeiling ==
    em # <<>> =>
        \A f \in 1..Len(em[1].fields) :
            LET field == em[1].fields[f]
                n     == Len(em[1].fields)
                link  == StrLen(questions[field.q].jump_url)
            IN  /\ IsSingleBlock(field)
                   => StrLen(field.value) <= MAX_BLOCK_LENGTH + 4 + link
                /\ IsChunk(field, "Question", n)
                   => StrLen(field.value)
                          <= MAX_BLOCK_LENGTH + Longest(QuotedWords(questions[field.q]))
                             + 1 + 3 + link
                /\ IsChunk(field, "Answer", n)
                   => StrLen(field.value)
                          <= MAX_ANSWER_CHUNK_LENGTH
                             + Longest(answer_words(questions[field.q])) + 1

\* the current document holds a single-block body longer than
\* MAX_BLOCK_LENGTH and an answer chunk of exactly MAX_ANSWER_CHUNK_LENGTH
\* plus one word and its space
BlockCeilingWitness ==
    /\ em # <<>>
    /\ \E f \in 1..Len(em[1].fields), g \in 1..Len(em[1].fields) :
           /\ IsSingleBlock(em[1].fields[f])
           /\ StrLen(em[1].fields[f].value) > MAX_BLOCK_LENGTH
           /\ IsChunk(em[1].fields[g], "Answer", Len(em[1].fields))
           /\ StrLen(em[1].fields[g].value)
                  = MAX_ANSWER_CHUNK_LENGTH
                    + Longest(answer_words(questions[em[1].fields[g].q])) + 1

\* ------------------------------------------------------------------------
\* C7  Ordering
\* ------------------------------------------------------------------------

\* the chunk indices a field name can stand for, for chunks of the given kind
ChunkIndices(field, kind, n) ==
    {i \in 0..(n - 1) :
        \E total \in 1..n : field.name = ChunkName(kind, questions[field.q], i, total)}

\* the blocks of an embed are in input order, and the blocks of one record
\* are its question chunks in index order, then its answer chunks in index order
BlocksInOrder(embed) ==
    LET n == Len(embed.fields)
    IN  \A f \in 1..n, g \in 1..n :
            f < g =>
                /\ embed.fields[f].q <= embed.fields[g].q
                /\ embed.fields[f].q = embed.fields[g].q
                   => /\ ChunkIndices(embed.fields[g], "Question", n) # {}
                         => ChunkIndices(embed.fields[f], "Question", n) # {}
                      /\ \A kind \in {"Question", "Answer"} :
                             \A i \in ChunkIndices(embed.fields[f], kind, n),
                                j \in ChunkIndices(embed.fields[g], kind, n) : i < j

\* C7: within every emitted Document the blocks are in the order of their
\* records in the input, the chunks of a split record in index order, and
\* Documents are emitted in the order of their first records.
Ordering ==
    /\ \A k \in DocIndices : BlocksInOrder(out[k].embed)
    /\ \A k \in DocIndices, l \in DocIndices :
           k < l => \E i \in RecordsOf(out[k].embed) :
                        \A j \in RecordsOf(out[l].embed) : i < j

\* two Documents were emitted, the first with a short record followed by the
\* chunks of a split record
OrderingWitness ==
    /\ pc = "done"
    /\ Cardinality(DocIndices) = 2
    /\ out[1].type = "Embed"
    /\ Cardinality(RecordsOf(out[1].embed)) = 2
    /\ Len(out[1].embed.fields) >= 5

\* ------------------------------------------------------------------------
\* C9  A rejected record leaves the current document untouched
\* ------------------------------------------------------------------------

\* C9: an iteration in which add_question answers QUESTION_TOO_LONG for a
\* record of the asker of the previous record leaves the current document as
\* it was (for a new asker, the fresh document stays blank), and yields only
\* the record; so when the generator has returned, the records before and
\* after a rejected record of the same asker, when both have blocks, are in
\* the same Document.
RejectedLeavesDocument ==
    /\ [][(pc = "loop" /\ pos' = pos + 1 /\ added_length' = QUESTION_TOO_LONG)
          => /\ ~AskerChanged(last_asker, questions[pos])
                => em' = em /\ out' = Append(out, YieldQuestion(questions[pos]))
             /\ AskerChanged(last_asker, questions[pos])
                => em' = <<blank("interviewee", questions[pos].asker)>>]_vars
    /\ [](pc = "done" =>
            \A i \in 2..(Len(questions) - 1) :
                (/\ RejectionsOf(i) # {}
                 /\ questions[i - 1].asker = questions[i].asker
                 /\ questions[i + 1].asker = questions[i].asker
                 /\ Placed(i - 1) /\ Placed(i + 1))
                => DocsOf(i - 1) = DocsOf(i + 1))

\* a rejected record between two short records of the same asker: the
\* output is the rejected record and one Document with the two others
RejectedWitness ==
    /\ pc = "done"
    /\ Len(questions) = 3
    /\ Len(out) = 2
    /\ out[1] = YieldQuestion(questions[2])
    /\ out[2].type = "Embed"
    /\ RecordsOf(out[2].embed) = {1, 3}

\* ------------------------------------------------------------------------
\* C10  No empty Document
\* ------------------------------------------------------------------------

\* C10: every emitted Document has at least one block, and an empty input
\* yields nothing.
NoEmptyDocument ==
    /\ \A k \in DocIndices : Len(out[k].embed.fields) > 0
    /\ questions = <<>> => out = <<>>

\* the generator has returned after three records; the last iteration ended
\* with TOTAL_TOO_LONG on a document without blocks, and the only thing
\* emitted is the Document of the first record
NoEmptyDocumentWitness ==
    /\ pc = "done"
    /\ Len(questions) = 3
    /\ added_length = TOTAL_TOO_LONG
    /\ em[1].fields = <<>>
    /\ Len(out) = 1
    /\ out[1].type = "Embed"
    /\ RecordsOf(out[1].embed) = {1}

\* ------------------------------------------------------------------------
\* C8  Question numbers of an interview round
\* ------------------------------------------------------------------------

\* the rows above row j on the sheet that have the asker of row j
EarlierRowsOfAsker(j) == {i \in 1..(j - 1) : sheet[i].asker = sheet[j].asker}

\* C8 as stated: on the sheet of the current interview no two rows carry the
\* same question number, and the numbers increase in ask order.
NumbersUniqueInRound ==
    \A i \in 1..Len(sheet), j \in 1..Len(sheet) :
        i < j => sheet[i].num < sheet[j].num

\* C8 amended: question numbers are counted per asker: the k-th row of an
\* asker on the sheet of the current interview has number k, so no two rows
\* of the same asker carry the same number and each asker's numbers increase
\* in ask order.
NumbersUniquePerAsker ==
    \A j \in 1..Len(sheet) : sheet[j].num = Cardinality(EarlierRowsOfAsker(j)) + 1

\* the sheet holds the default question, two questions of one member and a
\* question of another member
NumbersWitness ==
    /\ Len(sheet) = 4
    /\ sheet[1].asker = BotUser
    /\ \E i \in 2..4, j \in 2..4, k \in 2..4 :
           /\ i < j
           /\ sheet[i].asker = sheet[j].asker
           /\ sheet[k].asker # sheet[i].asker
           /\ sheet[j].num = 2

\* ------------------------------------------------------------------------
\* C11  Termination and bounded output
\* ------------------------------------------------------------------------

\* C11: every step inside the loop moves on to the next record (no record is
\* attempted twice) and the loop is left only by returning once every record
\* has been attempted, so the generator returns after one step per record
\* and one more;
\* and at every moment the number of items yielded (Documents plus rejected
\* records) is at most the number of records attempted, hence at most the
\* number of input records when it returns.
TerminationAndBoundedOutput ==
    /\ [][pc = "loop" /\ pc' = "loop" => pos' = pos + 1]_vars
    /\ [][pc = "loop" /\ pc' # "loop" => pc' = "done" /\ pos = Len(questions) + 1]_vars
    /\ [](Len(out) <= pos - 1 /\ pos <= Len(questions) + 1)

\* the generator has returned as many items as there were records, some of
\* them Documents and some rejected records
BoundedOutputWitness ==
    /\ pc = "done"
    /\ Len(questions) >= 2
    /\ Len(out) = Len(questions)
    /\ \E k \in 1..Len(out) : out[k].type = "Question"
    /\ \E k \in 1..Len(out) : out[k].type = "Embed"

\* ------------------------------------------------------------------------
\* C12  Split round-trip
\* ------------------------------------------------------------------------

\* the bodies of the chunks of the given kind of record i, in field order
ChunkValues(embed, i, kind) ==
    LET n      == Len(embed.fields)
        chosen == SelectSeq(embed.fields,
                            LAMBDA field : field.q = i /\ ChunkIndices(field, kind, n) # {})
    IN  [f \in 1..Len(chosen) |-> chosen[f].value]

\* a question chunk opens with the quote markup and closes with the link
WellFormedQuestionChunk(value, question) ==
    LET link == LinkSuffix(question)
    IN  /\ Len(value) >= 1 + Len(link)
        /\ value[1] = Run("[> ", 1)
        /\ SubSeq(value, Len(value) - Len(link) + 1, Len(value)) = link

\* a question chunk without its opening quote markup and its link
QuestionBody(value, question) ==
    SubSeq(value, 2, Len(value) - Len(LinkSuffix(question)))

\* the words read from a chunk body: the quote markup after each newline is
\* taken out, the body is cut at the blanks; the loops end every word with a
\* blank, so the part after the last blank is not a word
WordsRead(body) ==
    LET parts == Split(Replace(body, "\n> ", "\n"), " ")
    IN  SubSeq(parts, 1, Len(parts) - 1)

\* every chunk body ends with the blank of its last word
EndsWithBlank(body) ==
    LET parts == Split(body, " ")
    IN  Len(parts) >= 2 /\ parts[Len(parts)] = <<>>

\* the words of the question chunks from chunk k on, in index order
RECURSIVE QuestionWordsRead(_, _, _)
QuestionWordsRead(values, k, question) ==
    IF k > Len(values) THEN <<>>
    ELSE WordsRead(QuestionBody(values[k], question))
             \o QuestionWordsRead(values, k + 1, question)

\* the words of the answer chunks from chunk k on, in index order
RECURSIVE AnswerWordsRead(_, _)
AnswerWordsRead(values, k) ==
    IF k > Len(values) THEN <<>>
    ELSE WordsRead(values[k]) \o AnswerWordsRead(values, k + 1)

\* C12: for every record the current document holds that was added on the
\* splitting path, each question chunk is quote markup, words, link; the
\* words read from the question chunks in index order are exactly the words
\* of the escaped question, and the words read from the answer chunks in
\* index order are exactly the words of the escaped answer.
SplitRoundTrip ==
    em # <<>> =>
        \A i \in RecordsOf(em[1]) :
            ~FitsSingleBlock(questions[i]) =>
                LET qvalues == ChunkValues(em[1], i, "Question")
                    avalues == ChunkValues(em[1], i, "Answer")
                IN  /\ \A k \in 1..Len(qvalues) :
                           /\ WellFormedQuestionChunk(qvalues[k], questions[i])
                           /\ EndsWithBlank(QuestionBody(qvalues[k], questions[i]))
                    /\ \A k \in 1..Len(avalues) : EndsWithBlank(avalues[k])
                    /\ QuestionWordsRead(qvalues, 1, questions[i])
                           = question_words(questions[i])
                    /\ AnswerWordsRead(avalues, 1) = answer_words(questions[i])

\* the current document holds a split record with a newline and brackets in
\* its question, at least two question chunks and at least two answer chunks
SplitRoundTripWitness ==
    /\ em # <<>>
    /\ \E i \in RecordsOf(em[1]) :
           /\ ~FitsSingleBlock(questions[i])
           /\ Len(ChunkValues(em[1], i, "Question")) >= 2
           /\ Len(ChunkValues(em[1], i, "Answer")) >= 2
           /\ \E r \in 1..Len(questions[i].question) :
                  questions[i].question[r].c = "\n"
           /\ \E r \in 1..Len(questions[i].question) :
                  questions[i].question[r].c = "["

\* ------------------------------------------------------------------------
\* C13  Malformed input
\* ------------------------------------------------------------------------

\* the list holds a record without asker, with a negative number, or two
\* records of one asker with the same number
Malformed(qs) ==
    \/ \E i \in 1..Len(qs) : qs[i].asker = "None" \/ qs[i].question_num < 0
    \/ \E i \in 1..Len(qs), j \in 1..Len(qs) :
           i < j /\ qs[i].asker = qs[j].asker /\ qs[i].question_num = qs[j].question_num

\* C13: when the list given to _generate_embeds is malformed (a record
\* without asker, a negative or a repeated question number), the call raises
\* an error: it yields no Document and does not return normally.
MalformedInputFailsFast ==
    Malformed(questions) => DocIndices = {} /\ pc # "done"

\* ------------------------------------------------------------------------
\* C14  Vote limit
\* ------------------------------------------------------------------------

\* C14: in every state reached by vote, unvote, opt out, opt in and iv next
\* commands every voter has at most three Vote rows: a vote command replaces
\* the voter's rows by at most three new ones.
VoteLimit == \A voter \in DOMAIN votes : Len(votes[voter]) <= 3

\* a voter holds three votes while another voter holds votes too
VoteLimitWitness ==
    \E voter \in Voters, other \in Voters :
        voter # other /\ Len(votes[voter]) = 3 /\ Len(votes[other]) >= 1

\* ------------------------------------------------------------------------
\* C15  No self-vote
\* ------------------------------------------------------------------------

\* C15: no Vote row has its voter as candidate.
NoSelfVote ==
    \A voter \in DOMAIN votes : \A k \in 1..Len(votes[voter]) : votes[voter][k] # voter

\* ------------------------------------------------------------------------
\* C16  No vote for an opted-out member
\* ------------------------------------------------------------------------

\* C16: in every state no Vote row names a candidate who has an OptOut row.
NoVoteForOptedOut ==
    \A voter \in DOMAIN votes :
        \A k \in 1..Len(votes[voter]) : votes[voter][k] \notin optouts

\* a member is opted out while a voter holds votes for somebody else
NoVoteForOptedOutWitness ==
    /\ optouts # {}
    /\ \E voter \in Voters : votes[voter] # <<>>

\* ------------------------------------------------------------------------
\* C17  Truncation first
\* ------------------------------------------------------------------------

\* a mention the rules refuse: opted out, interviewed too recently, a bot or
\* the voter
Illegal(author, mention) ==
    OptedOut(mention) \/ TooRecent(mention) \/ IsBot(mention) \/ mention = author

\* C17: a vote command that mentions more than three members of whom the
\* first three are all illegal leaves the voter without Vote rows, whatever
\* the later mentions are.
TruncationFirst ==
    [][\A author \in Voters, mentions \in MentionLists :
          (/\ Len(mentions) > 3
           /\ \A k \in 1..3 : Illegal(author, mentions[k])
           /\ vote(author, mentions, FALSE))
          => votes'[author] = <<>>]_vars

\* ------------------------------------------------------------------------
\* C18  answer posts each answered question once
\* ------------------------------------------------------------------------

\* C18: an answer command that finds answered, unposted rows, in whichever
\* channel it is sent, leaves every one of these rows marked posted and
\* questions_answered larger by their number, so that the next answer
\* command finds none of them again.
AnswerPostsOnce ==
    [][\A invoked_in \in Channels :
          FilteredRows # <<>> /\ answer("interviewee", invoked_in)
          => /\ \A k \in 1..Len(FilteredRows) : sheet'[FilteredRows[k]].posted
             /\ interviews'[CurrentInterview].questions_answered
                    = interviews[CurrentInterview].questions_answered + Len(FilteredRows)]_vars

\* ------------------------------------------------------------------------
\* C19  preview has no lasting effect
\* ------------------------------------------------------------------------

Disabled == server # <<>> /\ ~server[1].active

\* C20: while the server is disabled (after iv setup or iv disable, until
\* iv enable) no step changes the opt-outs, the asker counts or the
\* questions_asked of an interview, and the votes change only in an iv next
\* step; every iv disable step starts enabled and every iv enable step
\* starts disabled, so a repeated iv disable or iv enable changes nothing.
DisabledStopsCommands ==
    /\ [][Disabled =>
            /\ optouts' = optouts
            /\ askers' = askers
            /\ \A i \in 1..Len(interviews) :
                   interviews'[i].questions_asked = interviews[i].questions_asked
            /\ votes' = votes \/ Len(interviews') > Len(interviews)]_vars
    /\ [][server # <<>> /\ server' # server
            => server'[1].active = ~server[1].active]_vars
    /\ [][iv_disable => server[1].active /\ ~server'[1].active]_vars
    /\ [][iv_enable => ~server[1].active /\ server'[1].active]_vars

\* the server has been disabled while it holds votes, an opt-out and
\* questions of an asker
DisabledWitness ==
    /\ Disabled
    /\ \E voter \in Voters : votes[voter] # <<>>
    /\ optouts # {}
    /\ askers # {}
    /\ CurrentInterview # 0
    /\ interviews[CurrentInterview].questions_asked >= 2

\* ------------------------------------------------------------------------
\* C21  Sheet names are unique, first come first served
\* ------------------------------------------------------------------------

\* C21: after any sequence of iv setup commands no two rows of the Server
\* table share a sheet name or a guild, and an iv setup that names a
\* registered sheet or comes from a guild that is set up leaves the table
\* as it is.
UniqueSheetNames ==
    /\ [](\A i, j \in 1..Len(servers) :
             servers[i].sheet_name = servers[j].sheet_name \/ servers[i].id = servers[j].id
             => i = j)
    /\ [][\A guild \in Guilds, sheet_name \in SheetNames :
            /\ \E i \in 1..Len(servers) :
                   servers[i].id = guild \/ servers[i].sheet_name = sheet_name
            /\ \E found \in BOOLEAN : iv_setup_in(guild, sheet_name, found)
            => servers' = servers]_vars
    /\ [][\A i \in 1..Len(servers) :
            /\ Len(servers') >= i
            /\ servers'[i].id = servers[i].id
            /\ servers'[i].sheet_name = servers[i].sheet_name]_vars

\* every guild is set up, each with a sheet of its own, and one is enabled
UniqueSheetNamesWitness ==
    /\ Len(servers) = MaxGuilds
    /\ \E i \in 1..Len(servers) : servers[i].id # servers[i].sheet_name
    /\ \E i \in 1..Len(servers) : servers[i].active

\* ------------------------------------------------------------------------
\* C22  Length accounting
\* ------------------------------------------------------------------------

\* C22: between the iterations of the loop the running length is the sum of
\* name length + body length over the blocks of the current document; so it
\* is 0 for a document without blocks, and a rejected record leaves it as
\* it was.
LengthAccounting ==
    /\ em = <<>> => length = 0
    /\ em # <<>> => length = FieldsLength(em[1])

\* ------------------------------------------------------------------------
\* C23  Split admission threshold
\* ------------------------------------------------------------------------

\* C23 as stated: a record that cannot form a single block and has at most
\* 4700 raw characters is split and appended to the current document when
\* the running length plus its raw length is at most 4800, and only then.
SplitAdmissionAtDocCeiling ==
    [][pc = "loop" /\ pos <= Len(questions) /\ SplitRecord(questions[pos])
        => (LengthBefore + RawLength(questions[pos]) <= MAX_DOC_LENGTH
            <=> added_length' > 0 /\ Len(em'[1].fields) > FieldsBefore)]_vars

\* C23, amended: such a record is split and appended to the current
\* document when the running length plus its raw length is at most 4700;
\* when the sum exceeds 4700 add_question returns the code of a full
\* document and the record gets no block.
SplitAdmission ==
    [][pc = "loop" /\ pos <= Len(questions) /\ SplitRecord(questions[pos])
        => IF LengthBefore + RawLength(questions[pos]) <= MAX_RECORD_LENGTH
           THEN added_length' > 0 /\ Len(em'[1].fields) > FieldsBefore
           ELSE added_length' = TOTAL_TOO_LONG]_vars

\* a split record has been appended to a document that held a block of the
\* same asker
SplitAdmissionWitness ==
    /\ pos > 2
    /\ SplitRecord(questions[pos - 1])
    /\ questions[pos - 1].asker = questions[pos - 2].asker
    /\ added_length > 0
    /\ length > added_length
    /\ Len(em[1].fields) > 2

\* ------------------------------------------------------------------------
\* C24  Quoted newlines
\* ------------------------------------------------------------------------

\* how often the piece c stands in runs k.. of s
RECURSIVE RunCountFrom(_, _, _)
RunCountFrom(s, c, k) ==
    IF k > Len(s) THEN 0
    ELSE (IF s[k].c = c THEN s[k].n ELSE 0) + RunCountFrom(s, c, k + 1)

RunCount(s, c) == RunCountFrom(s, c, 1)

\* the value of a question block holds the opening of the link
HasLink(value) == \E k \in 1..Len(value) : value[k].c = "]("

\* the quoted question of a question block: its value up to the link
QuotedQuestion(value) ==
    LET k == CHOOSE k \in 1..Len(value) :
                 value[k].c = "](" /\ \A j \in 1..(k - 1) : value[j].c # "]("
    IN  SubSeq(value, 1, k - 1)

\* how often c stands in the quoted questions of record i in fields f..
RECURSIVE QuotedCountFrom(_, _, _, _)
QuotedCountFrom(fields, i, c, f) ==
    IF f > Len(fields) THEN 0
    ELSE (IF fields[f].q = i /\ HasLink(fields[f].value)
          THEN RunCount(QuotedQuestion(fields[f].value), c) ELSE 0)
         + QuotedCountFrom(fields, i, c, f + 1)

\* C24: in the blocks the current document holds for a record, on the
\* single-block path and on the splitting path, the quoted question has
\* every line break of the question, each followed by the blockquote marker.
QuotedNewlines ==
    em # <<>> =>
        \A f \in 1..Len(em[1].fields) :
            LET i == em[1].fields[f].q
            IN  /\ QuotedCountFrom(em[1].fields, i, "\n> ", 1)
                       = RunCount(questions[i].question, "\n")
                /\ QuotedCountFrom(em[1].fields, i, "\n", 1) = 0

====
